---- MODULE Spec2Model ----
(***************************************************************************)
(* A model of the engine-connection manager of stockfish_mcp              *)
(* (src/stockfish_manager.py): one StockfishManager instance shared by    *)
(* several caller threads, the engine processes it spawns, and the        *)
(* faults those processes can show (death, failed ping, failed search,    *)
(* failed spawn, failed quit).                                            *)
(*                                                                         *)
(* Every statement of the manager that touches the engine is one step of  *)
(* the calling thread.  The manager's fields are engine, first_run and    *)
(* lock; alive and nextPid are the operating system's side (which of the  *)
(* spawned processes still run); the remaining variables record, per      *)
(* call, what the call did (trace, outcome) and what it found on entry.   *)
(*                                                                         *)
(* The tool layer (src/server.py) and the game tracker                     *)
(* (src/game_state.py) are modelled over a small stand-in for the rules    *)
(* library: a board of one rank with one-step moves, position texts with   *)
(* a run-length coded board field, and moves written as two squares.       *)
(* Spec is the manager under the analysis tools; SpecGame runs the game    *)
(* tools one call at a time; SpecGameConc interleaves their statements.    *)
(* SpecFen applies FenValidator.validate                                   *)
(* (src/stockfish_mcp/fen_validator.py) to texts given character by        *)
(* character.                                                              *)
(***************************************************************************)
EXTENDS Integers, Sequences, FiniteSets, TLC

\* ---------------------------------------------------------------- bounds
NumThreads == 2
MaxProcs == 3

Threads == 1..NumThreads
Pids == 1..MaxProcs

\* Python's None for the engine field, and "nobody" for the lock.
None == 0
NoThread == 0

AnalysisOps == {"analyze_position", "get_best_move", "get_top_moves"}
Ops == AnalysisOps \cup {"close"}

VARIABLES
    engine,      \* StockfishManager.engine: None or the referenced process
    first_run,   \* StockfishManager.first_run
    verified,    \* a spawn followed by an answered ping has completed
    lock,        \* StockfishManager._lock: NoThread or the holding thread
    alive,       \* processes spawned by this manager that still run
    nextPid,     \* the next process the operating system hands out
    leaked,      \* live processes whose reference was dropped without quit()
    closed,      \* some close() has returned
    pc,          \* per thread: the statement it stands before
    op,          \* per thread: the method it is calling
    cont,        \* per thread: where _ensure_engine returns to
    trace,       \* per thread: engine events of the call in flight
    outcome,     \* per thread: "none", "ok" (returned) or "error" (raised)
    entry,       \* per thread: what the call found when it took the lock
    afterClose,  \* per thread: the call took the lock after a close() returned
    parsed,      \* per thread: "none", or whether the tool's position text parsed
    heap,        \* the GameState objects that are still referenced
    current_game,\* server.current_game: NoGame or a GameState object
    gpc,         \* per thread: the statement of the game tool it stands before
    gcall,       \* per thread: the game tool called and its arguments
    gref,        \* per thread: the GameState object make_move runs on
    gout,        \* per thread: "none", "status", "error" or "exception"
    gpre,        \* per thread: the game as it was when the tool was called
    fen_in,      \* the argument FenValidator is called with
    fen_out,     \* what the call gave
    fen_call,    \* the method of FenValidator that was called
    top_legal,   \* get_top_moves: the number of legal moves of the board
    top_count,   \* get_top_moves: the count argument
    top_results, \* get_top_moves: results, what engine.analyse returned
    top_out      \* get_top_moves: what the method gave

mvars == <<engine, first_run, verified, lock, alive, nextPid, leaked, closed,
           pc, op, cont, trace, outcome, entry, afterClose, parsed>>

gvars == <<heap, current_game, gpc, gcall, gref, gout, gpre>>

fvars == <<fen_in, fen_out, fen_call>>

tvars == <<top_legal, top_count, top_results, top_out>>

vars == <<mvars, gvars, fvars, tvars>>

mgr == <<engine, first_run, verified, alive, nextPid, leaked>>

\* ------------------------------------------------- the engine library
\* What one engine operation can answer.  A dead process always answers
\* with an engine error (EngineTerminatedError); a live one can answer,
\* raise an engine error, or raise something else (a timeout).
SpawnOutcomes == IF nextPid <= MaxProcs THEN {"ok", "fail"} ELSE {"fail"}

PingOutcomes(p) ==
    IF p \in alive THEN {"ok", "engine_error", "other_error"}
                   ELSE {"engine_error"}

SearchOutcomes(p) ==
    IF p = None THEN {"other_error"}
    ELSE IF p \in alive THEN {"ok", "engine_error", "other_error"}
                        ELSE {"engine_error"}

QuitOutcomes(p) == IF p \in alive THEN {"ok", "fail"} ELSE {"fail"}

\* -------------------------------------------------- the rules library
\* A stand-in for the chess library behind chess.Board, chess.Move and
\* Board.fen(): a board of one rank whose squares are named by their file,
\* one-step moves to an empty neighbour, and position texts of up to three
\* fields (board, side to move, en-passant square), each field a sequence
\* of characters.
Squares == <<"a", "b", "c", "d">>

Digits == <<"1", "2", "3", "4">>

Pieces == {"W", "B"}

IsSquare(c) == \E i \in 1..Len(Squares) : Squares[i] = c

SqIndex(c) == CHOOSE i \in 1..Len(Squares) : Squares[i] = c

IsDigit(c) == \E i \in 1..Len(Digits) : Digits[i] = c

DigitValue(c) == CHOOSE i \in 1..Len(Digits) : Digits[i] = c

\* The cells a board field stands for: a digit is that many empty cells.
RECURSIVE Expand(_)
Expand(cs) ==
    IF cs = <<>> THEN <<>>
    ELSE (IF IsDigit(Head(cs)) THEN [i \in 1..DigitValue(Head(cs)) |-> "."]
                               ELSE <<Head(cs)>>) \o Expand(Tail(cs))

\* The board field of a row of cells: runs of empty cells become digits.
RECURSIVE Encode(_, _)
Encode(cells, run) ==
    LET flush == IF run > 0 THEN <<Digits[run]>> ELSE <<>> IN
    IF cells = <<>> THEN flush
    ELSE IF Head(cells) = "." THEN Encode(Tail(cells), run + 1)
    ELSE flush \o <<Head(cells)>> \o Encode(Tail(cells), 0)

BoardOk(cs) ==
    /\ cs # <<>>
    /\ \A i \in 1..Len(cs) : cs[i] \in Pieces \/ IsDigit(cs[i])
    /\ \A i \in 1..(Len(cs) - 1) : ~(IsDigit(cs[i]) /\ IsDigit(cs[i + 1]))
    /\ Len(Expand(cs)) = Len(Squares)

\* chess.Board(text) succeeds; otherwise it raises ValueError.
ParseOk(text) ==
    /\ Len(text) \in 1..3
    /\ BoardOk(text[1])
    /\ Len(text) >= 2 => text[2] \in {<<"w">>, <<"b">>}
    /\ Len(text) >= 3 => (text[3] = <<"-">> \/ (Len(text[3]) = 1 /\ IsSquare(text[3][1])))

\* chess.Board(text): missing fields take their defaults.
Parse(text) ==
    [at |-> Expand(text[1]),
     turn |-> IF Len(text) >= 2 THEN text[2][1] ELSE "w",
     ep |-> IF Len(text) >= 3 THEN text[3][1] ELSE "-"]

\* chess.Board(): the standard initial position.
StartPos == [at |-> <<"W", ".", ".", "B">>, turn |-> "w", ep |-> "-"]

\* No piece of this board captures en passant.
EpCaptureLegal(pos) == FALSE

\* Board.fen(): the en-passant square is shown only if a capture is legal.
FenOf(pos) ==
    <<Encode(pos.at, 0), <<pos.turn>>,
      <<IF EpCaptureLegal(pos) THEN pos.ep ELSE "-">>>>

\* chess.Move.from_uci(text) succeeds; otherwise it raises ValueError.
MoveOk(mt) == Len(mt) = 2 /\ IsSquare(mt[1]) /\ IsSquare(mt[2]) /\ mt[1] # mt[2]

ParseMove(mt) == [from |-> SqIndex(mt[1]), to |-> SqIndex(mt[2])]

\* Move.uci()
Uci(m) == <<Squares[m.from], Squares[m.to]>>

Mover(pos) == IF pos.turn = "w" THEN "W" ELSE "B"

Flip(turn) == IF turn = "w" THEN "b" ELSE "w"

\* Board.is_legal(move)
IsLegal(pos, m) ==
    /\ pos.at[m.from] = Mover(pos)
    /\ (m.to = m.from + 1 \/ m.to = m.from - 1)
    /\ pos.at[m.to] = "."

\* Board.push(move): moves whatever stands on the from-square, without
\* checking legality, and passes the turn.
Push(pos, m) ==
    [at |-> [pos.at EXCEPT ![m.from] = ".", ![m.to] = pos.at[m.from]],
     turn |-> Flip(pos.turn),
     ep |-> "-"]

\* The position texts the tools are called with: complete, short (defaults
\* apply), with an en-passant square, and texts the library rejects (the
\* empty text, a wrong turn, a surplus field, a rank of five squares, two
\* digits in a row, an unknown piece letter).
FenTexts ==
    { <<<<"W", "2", "B">>, <<"w">>, <<"-">>>>,
      <<<<"W", "2", "B">>>>,
      <<<<"1", "W", "1", "B">>, <<"b">>>>,
      <<<<"W", "1", "W", "1">>, <<"w">>, <<"-">>>>,
      <<<<"W", "1", "B", "1">>, <<"b">>, <<"c">>>>,
      <<>>,
      <<<<"W", "2", "B">>, <<"x">>, <<"-">>>>,
      <<<<"W", "2", "B">>, <<"w">>, <<"-">>, <<"1">>>>,
      <<<<"W", "3", "B">>, <<"w">>, <<"-">>>>,
      <<<<"W", "1", "1", "B">>, <<"w">>, <<"-">>>>,
      <<<<"W", "Q", "1", "B">>, <<"w">>, <<"-">>>> }

\* The move texts the tools are called with: steps, a jump, and texts that
\* are no move at all.
MoveTexts ==
    { <<"a", "b">>, <<"b", "c">>, <<"d", "c">>, <<"c", "b">>, <<"b", "a">>,
      <<"c", "d">>, <<"a", "c">>, <<"a", "z">>, <<"a">> }

\* ------------------------------------------------------ the game tracker
\* The longest move log a move tool is still called on.
MaxLog == 3

\* One GameState object per caller can be referenced besides the current one.
MaxObjs == NumThreads + 1

ObjIds == 1..MaxObjs

\* Python's None for server.current_game.
NoGame == 0

\* def __init__(self, ai_color, difficulty: int = 10, fen = None)
DefaultDifficulty == 10

\* def start_game(ai_color: str = "black", ...)
DefaultAiColor == "black"

\* start_game(ai_color="white", difficulty=15) of the tool tests
OtherDifficulty == 15

MoveTools == {"make_move", "record_opponent_move"}

GameTools == MoveTools \cup {"start_game"}

\* An optional argument is <<>> when the caller leaves it out, <<v>> otherwise.
ColorArgs == {<<>>, <<"Black">>, <<"white">>}

DifficultyArgs == {<<>>, <<OtherDifficulty>>}

FenArgs == {<<>>} \cup {<<f>> : f \in FenTexts}

NoCall == [tool |-> "none", ai_color |-> <<>>, difficulty |-> <<>>,
           fen |-> <<>>, move |-> <<>>]

GameCalls ==
    { [NoCall EXCEPT !.tool = "start_game", !.ai_color = a, !.difficulty = d, !.fen = f] :
        a \in ColorArgs, d \in DifficultyArgs, f \in FenArgs }
    \cup { [NoCall EXCEPT !.tool = o, !.move = m] : o \in MoveTools, m \in MoveTexts }

\* str.lower()
Lower(str) == IF str = "Black" THEN "black" ELSE str

\* color = chess.BLACK if ai_color.lower() == "black" else chess.WHITE
ColorOf(arg) ==
    LET ai_color == IF arg = <<>> THEN DefaultAiColor ELSE arg[1]
    IN IF Lower(ai_color) = "black" THEN "black" ELSE "white"

DifficultyOf(arg) == IF arg = <<>> THEN DefaultDifficulty ELSE arg[1]

\* "if fen": None and the empty text are both false.
Falsy(fen) == fen = <<>> \/ fen[1] = <<>>

\* Variant: the constructor ignores the text it is given.
NewBoard_Standard(fen) == StartPos

\* self.board = chess.Board(fen) if fen else chess.Board()
NewBoard(fen) == IF Falsy(fen) THEN StartPos ELSE Parse(fen[1])

\* The constructor raises ValueError exactly if chess.Board(fen) is reached
\* and raises.
ConstructOk(fen) == Falsy(fen) \/ ParseOk(fen[1])

\* GameState.__init__; start is the position the game was started from.
NewGame(c) ==
    [board |-> NewBoard(c.fen),
     move_history |-> <<>>,
     ai_color |-> ColorOf(c.ai_color),
     difficulty |-> DifficultyOf(c.difficulty),
     start |-> NewBoard(c.fen)]

\* Variant: make_move pushes without asking is_legal.
MoveAccepted_Unchecked(board, m) == TRUE

\* if not self.board.is_legal(move): raise ValueError
MoveAccepted(board, m) == IsLegal(board, m)

\* Variant: make_move is refused unless the engine's side is to move.
ToolAllowsMove_OwnTurn(tool, g) ==
    tool = "make_move" => g.ai_color = (IF g.board.turn = "w" THEN "white" ELSE "black")

\* record_opponent_move and make_move have the same body up to the
\* status text: neither reads ai_color or compares the side to move.
ToolAllowsMove(tool, g) == TRUE

\* Variant: the move is put in front of the log.
LogAfterMove_Front(log, m) == <<m>> \o log

\* self.move_history.append(move)
LogAfterMove(log, m) == Append(log, m)

\* GameState.current_player
current_player(g) == g.board.turn

\* Variant: the status shows the en-passant square as it is stored.
game_status_Stored(g) ==
    [fen |-> <<Encode(g.board.at, 0), <<g.board.turn>>, <<g.board.ep>>>>,
     current_player |-> IF current_player(g) = "w" THEN "white" ELSE "black",
     move_history |-> [i \in 1..Len(g.move_history) |-> Uci(g.move_history[i])],
     ai_color |-> g.ai_color]

\* GameState.game_status
game_status(g) ==
    [fen |-> FenOf(g.board),
     current_player |-> IF current_player(g) = "w" THEN "white" ELSE "black",
     move_history |-> [i \in 1..Len(g.move_history) |-> Uci(g.move_history[i])],
     ai_color |-> g.ai_color]

\* The objects still referenced by the global or by a running call.
Collect(h, cur, refs) ==
    [id \in {i \in DOMAIN h : i = cur \/ \E t \in Threads : refs[t] = i} |-> h[id]]

\* What a call finds: the global and the game behind it.
Snapshot == [cur |-> current_game,
             game |-> IF current_game = NoGame THEN <<>> ELSE <<heap[current_game]>>]

NoSnapshot == [cur |-> NoGame, game |-> <<>>]

GameInit ==
    /\ heap = <<>>
    /\ current_game = NoGame
    /\ gpc = [t \in Threads |-> "idle"]
    /\ gcall = [t \in Threads |-> NoCall]
    /\ gref = [t \in Threads |-> NoGame]
    /\ gout = [t \in Threads |-> "none"]
    /\ gpre = [t \in Threads |-> NoSnapshot]

\* ------------------------------------------------------ the FEN validator
\* src/stockfish_mcp/fen_validator.py.  A text is a sequence of characters;
\* an argument is a text, None or a number.
FieldsRequired == 6

RanksRequired == 8

SquaresRequired == 8

Text(cs) == [kind |-> "str", chars |-> cs]

NoneArg == [kind |-> "None", chars |-> <<>>]

NumberArg == [kind |-> "int", chars |-> <<>>]

NoInput == [kind |-> "nothing", chars |-> <<>>]

\* What a call gives: it returned a value, it raised FenValidationError for
\* a rule, or it raised another exception.
Gives(v) == [raised |-> "none", rule |-> "none", value |-> v]

ReturnedTrue == Gives("True")

ReturnedFalse == Gives("False")

ReturnedNone == Gives("None")

Fails(rule) == [raised |-> "FenValidationError", rule |-> rule, value |-> "none"]

Raises(exc) == [raised |-> exc, rule |-> "none", value |-> "none"]

NoResult == [raised |-> "pending", rule |-> "none", value |-> "none"]

\* str.split(sep): the pieces between the separators, empty ones included.
RECURSIVE SplitFrom(_, _, _)
SplitFrom(cs, sep, cur) ==
    IF cs = <<>> THEN <<cur>>
    ELSE IF Head(cs) = sep THEN <<cur>> \o SplitFrom(Tail(cs), sep, <<>>)
    ELSE SplitFrom(Tail(cs), sep, Append(cur, Head(cs)))

Split(cs, sep) == SplitFrom(cs, sep, <<>>)

\* sep.join(parts)
RECURSIVE Join(_, _)
Join(parts, sep) ==
    IF parts = <<>> THEN <<>>
    ELSE IF Len(parts) = 1 THEN parts[1]
    ELSE parts[1] \o <<sep>> \o Join(Tail(parts), sep)

AsciiDigits == <<"0", "1", "2", "3", "4", "5", "6", "7", "8", "9">>

\* str.isdigit(): the ten digits
isdigit(c) == \E i \in 1..Len(AsciiDigits) : AsciiDigits[i] = c

\* int(char) of a digit
int(c) == (CHOOSE i \in 1..Len(AsciiDigits) : AsciiDigits[i] = c) - 1

\* if fen == "": raise FenValidationError("FEN is empty")
validate_empty_fen(fen) ==
    IF fen.kind = "str" /\ fen.chars = <<>> THEN Fails("empty") ELSE ReturnedTrue

\* if not isinstance(fen, str): raise FenValidationError
validate_is_string(fen) ==
    IF fen.kind # "str" THEN Fails("not_string") ELSE ReturnedTrue

\* fields = fen.split(' '); if len(fields) != 6: raise FenValidationError
validate_field_count(fen) ==
    IF Len(Split(fen.chars, " ")) # FieldsRequired THEN Fails("field_count") ELSE ReturnedTrue

\* ranks = fen.split(' ')[0].split('/')
RanksOf(fen) == Split(Split(fen.chars, " ")[1], "/")

\* if len(ranks) != 8: raise FenValidationError
validate_board_ranks(fen) ==
    IF Len(RanksOf(fen)) # RanksRequired THEN Fails("rank_count") ELSE ReturnedTrue

\* square_count of one rank: int(char) for a digit, 1 for any other char
RECURSIVE square_count(_)
square_count(rank) ==
    IF rank = <<>> THEN 0
    ELSE (IF isdigit(Head(rank)) THEN int(Head(rank)) ELSE 1) + square_count(Tail(rank))

\* Variant: a digit counts as one square.
validate_rank_squares_Flat(fen) ==
    IF \E i \in 1..Len(RanksOf(fen)) : Len(RanksOf(fen)[i]) # SquaresRequired
    THEN Fails("rank_squares") ELSE ReturnedTrue

\* for rank in ranks: ... if square_count != 8: raise FenValidationError
validate_rank_squares(fen) ==
    IF \E i \in 1..Len(RanksOf(fen)) : square_count(RanksOf(fen)[i]) # SquaresRequired
    THEN Fails("rank_squares") ELSE ReturnedTrue

\* ep_square = fen.split(' ')[3]; '-' passes; ep_square[1] must be '3' or
\* '6', and indexing it raises IndexError on a field shorter than two.
validate_en_passent_rank(fen) ==
    LET ep_square == Split(fen.chars, " ")[4]
    IN IF ep_square = <<"-">> THEN ReturnedTrue
       ELSE IF Len(ep_square) < 2 THEN Raises("IndexError")
       ELSE IF ep_square[2] # "3" /\ ep_square[2] # "6" THEN Fails("en_passant")
       ELSE ReturnedTrue

\* FenValidator.validate: the six checks in their order; the first that
\* raises ends the call.
validate(fen) ==
    IF validate_empty_fen(fen) # ReturnedTrue THEN validate_empty_fen(fen)
    ELSE IF validate_is_string(fen) # ReturnedTrue THEN validate_is_string(fen)
    ELSE IF validate_field_count(fen) # ReturnedTrue THEN validate_field_count(fen)
    ELSE IF validate_board_ranks(fen) # ReturnedTrue THEN validate_board_ranks(fen)
    ELSE IF validate_rank_squares(fen) # ReturnedTrue THEN validate_rank_squares(fen)
    ELSE IF validate_en_passent_rank(fen) # ReturnedTrue THEN validate_en_passent_rank(fen)
    ELSE ReturnedTrue

\* FenValidator.is_valid: try: self.validate(fen); return True
\* except FenValidationError: return False.  Another exception of validate
\* is not caught.
is_valid(fen) ==
    IF validate(fen) = ReturnedTrue THEN ReturnedTrue
    ELSE IF validate(fen).raised = "FenValidationError" THEN ReturnedFalse
    ELSE validate(fen)

\* FenValidator.get_validation_errors: the body is pass, the call gives None.
get_validation_errors(fen) == ReturnedNone

\* The arguments the validator is called with: every combination of the
\* fields below, five and seven fields, the empty text, None and a number.

\* the initial position; a middle game; two kings; no kings; two white kings;
\* an unknown letter; a digit 0 in a full rank; seven ranks; a rank of nine squares; a rank of seven squares;
\* a rank "0"; a rank "9"; a digit 0 at the end of a full rank.

BoardFields ==
    { <<"r", "n", "b", "q", "k", "b", "n", "r", "/", "p", "p", "p", "p", "p", "p", "p", "p", "/", "8", "/", "8", "/", "8", "/", "8", "/", "P", "P", "P", "P", "P", "P", "P", "P", "/", "R", "N", "B", "Q", "K", "B", "N", "R">>,
      <<"r", "1", "b", "q", "k", "b", "1", "r", "/", "p", "p", "p", "p", "1", "p", "p", "p", "/", "2", "n", "2", "n", "2", "/", "4", "p", "3", "/", "2", "B", "1", "P", "3", "/", "3", "P", "1", "N", "2", "/", "P", "P", "P", "2", "P", "P", "P", "/", "R", "N", "B", "Q", "K", "2", "R">>,
      <<"8", "/", "8", "/", "8", "/", "8", "/", "8", "/", "8", "/", "4", "K", "3", "/", "4", "k", "3">>,
      <<"8", "/", "8", "/", "8", "/", "8", "/", "8", "/", "8", "/", "8", "/", "8">>,
      <<"8", "/", "8", "/", "8", "/", "8", "/", "8", "/", "8", "/", "4", "K", "K", "2", "/", "4", "k", "3">>,
      <<"8", "/", "8", "/", "8", "/", "8", "/", "8", "/", "3", "x", "4", "/", "4", "K", "3", "/", "4", "k", "3">>,
      <<"8", "/", "8", "/", "8", "/", "8", "/", "8", "/", "p", "p", "0", "p", "p", "p", "p", "p", "p", "/", "4", "K", "3", "/", "4", "k", "3">>,
      <<"8", "/", "8", "/", "8", "/", "8", "/", "8", "/", "4", "K", "3", "/", "4", "k", "3">>,
      <<"8", "/", "8", "/", "8", "/", "8", "/", "8", "/", "8", "/", "4", "K", "4", "/", "4", "k", "3">>,
      <<"8", "/", "8", "/", "8", "/", "8", "/", "8", "/", "8", "/", "4", "K", "2", "/", "4", "k", "3">>,
      <<"8", "/", "8", "/", "8", "/", "8", "/", "8", "/", "0", "/", "4", "K", "3", "/", "4", "k", "3">>,
      <<"8", "/", "8", "/", "8", "/", "8", "/", "8", "/", "9", "/", "4", "K", "3", "/", "4", "k", "3">>,
      <<"8", "/", "8", "/", "8", "/", "8", "/", "8", "/", "8", "/", "4", "K", "3", "0", "/", "4", "k", "3">> }

SideFields == {<<"w">>, <<"b">>, <<"x">>}

CastlingFields == {<<"K", "Q", "k", "q">>, <<"-">>, <<"K", "q">>, <<"K", "K">>}

EnPassantFields ==
    {<<"-">>, <<"e", "3">>, <<"f", "6">>, <<"e", "4">>, <<"e">>,
     <<"i", "3">>, <<"e", "3", "3">>, <<"e", "x">>, <<>>}

HalfmoveFields == {<<"0">>, <<"-", "1">>}

FullmoveFields == {<<"1">>, <<"5", "0">>, <<"x">>}

SixFieldTexts ==
    { Join(<<b, sd, c, e, h, m>>, " ") :
        b \in BoardFields, sd \in SideFields, c \in CastlingFields,
        e \in EnPassantFields, h \in HalfmoveFields, m \in FullmoveFields }

FenInputs ==
    {Text(cs) : cs \in SixFieldTexts}
    \cup {Text(Join(<<b, <<"w">>, <<"-">>, <<"-">>, <<"0">>>>, " ")) : b \in BoardFields}
    \cup {Text(cs \o <<" ", "e", "x", "t", "r", "a">>) : cs \in SixFieldTexts}
    \cup {Text(<<>>), NoneArg, NumberArg}

FenInit ==
    /\ fen_in = NoInput
    /\ fen_out = NoResult
    /\ fen_call = "none"


\* ---------------------------------------------- get_top_moves: the list
MaxLegal == 4
MaxCount == 4

Min(a, b) == IF a <= b THEN a ELSE b

\* One line of the engine's answer: the move it starts with and its score.
Line(m) == [pv |-> <<m>>, score |-> 100 - m]

\* The line the engine reports on a board without legal moves: a score
\* (mate or draw) and no "pv".
BareLine == [score |-> 0]

\* engine.analyse(board, limit, multipv=count): one line per requested
\* move, as far as the board has legal moves, best first, each starting
\* with another move; on a board without legal moves the one bare line.
EngineInfos(legal, count) ==
    IF legal = 0 THEN {<<BareLine>>}
    ELSE { [i \in 1..Min(count, legal) |-> Line(f[i])] :
             f \in {g \in [1..Min(count, legal) -> 1..legal] :
                      \A i, j \in 1..Min(count, legal) : i # j => g[i] # g[j]} }

NoList == [raised |-> "pending", value |-> <<>>]

NoAnswer == <<>>

\* return [(result["pv"][0], result["score"]) for result in results]:
\* result["pv"] raises KeyError on a line without "pv".
top_moves(results) ==
    IF \E i \in 1..Len(results) : "pv" \notin DOMAIN results[i]
    THEN [raised |-> "KeyError", value |-> <<>>]
    ELSE [raised |-> "none",
          value |-> [i \in 1..Len(results) |->
                        <<results[i].pv[1], results[i].score>>]]

TopInit ==
    /\ top_legal = 0
    /\ top_count = 0
    /\ top_results = NoAnswer
    /\ top_out = NoList

\* ------------------------------------------------------------- helpers
Log(t, ev) == trace' = [trace EXCEPT ![t] = Append(@, ev)]

Goto(t, l) == pc' = [pc EXCEPT ![t] = l]

Finish(t, res) ==
    /\ outcome' = [outcome EXCEPT ![t] = res]
    /\ Goto(t, "exit")

EntryState ==
    IF engine = None THEN "unstarted"
    ELSE IF engine \in alive THEN "running_live" ELSE "running_dead"

\* ------------------------------------------------------------- actions
\* The manager after construction, no call running.
ManagerInit ==
    /\ engine = None
    /\ first_run = TRUE
    /\ verified = FALSE
    /\ lock = NoThread
    /\ alive = {}
    /\ nextPid = 1
    /\ leaked = {}
    /\ closed = FALSE
    /\ pc = [t \in Threads |-> "idle"]
    /\ op = [t \in Threads |-> "none"]
    /\ cont = [t \in Threads |-> "none"]
    /\ trace = [t \in Threads |-> <<>>]
    /\ outcome = [t \in Threads |-> "none"]
    /\ entry = [t \in Threads |-> "none"]
    /\ afterClose = [t \in Threads |-> FALSE]
    /\ parsed = [t \in Threads |-> "none"]

Init ==
    /\ ManagerInit
    /\ GameInit
    /\ FenInit
    /\ TopInit

\* Variant: the tool calls the manager before looking at the position text.
ToolProceeds_Unchecked(f) == TRUE

\* board = chess.Board(fen): the tool goes on only if the text parses.
ToolProceeds(f) == ParseOk(f)

\* What chess.Board(fen) made of the texts the tool goes on with, and the
\* texts it stops at.
ParseResult(f) == IF ParseOk(f) THEN "ok" ELSE "failed"

ProceedingResults == {ParseResult(f) : f \in {g \in FenTexts : ToolProceeds(g)}}

StoppingTexts == {f \in FenTexts : ~ToolProceeds(f)}

\* A thread calls one of the three analysis tools with a position text that
\* parses, or close(); the tool (or the caller of close) calls the manager.
Invoke(t, o) ==
    /\ pc[t] = "idle"
    /\ gpc[t] = "idle"
    /\ IF o = "close"
       THEN parsed' = parsed
       ELSE \E r \in ProceedingResults : parsed' = [parsed EXCEPT ![t] = r]
    /\ op' = [op EXCEPT ![t] = o]
    /\ Goto(t, "wait")
    /\ UNCHANGED <<mgr, lock, closed, cont, trace, outcome, entry, afterClose, gvars, fvars, tvars>>

\* An analysis tool called with a text that does not parse: chess.Board(fen)
\* raises ValueError, which nothing in the tool catches.  The three tools
\* are alike up to here, so which of them it was is not kept.
Reject(t, o) ==
    /\ pc[t] = "idle"
    /\ gpc[t] = "idle"
    /\ o \in AnalysisOps
    /\ StoppingTexts # {}
    /\ parsed' = [parsed EXCEPT ![t] = "failed"]
    /\ outcome' = [outcome EXCEPT ![t] = "error"]
    /\ Goto(t, "rejected")
    /\ UNCHANGED <<mgr, lock, closed, op, cont, trace, entry, afterClose, gvars, fvars, tvars>>

\* The ValueError leaves the tool.
ToolRaise(t) ==
    /\ pc[t] = "rejected"
    /\ pc' = [pc EXCEPT ![t] = "idle"]
    /\ outcome' = [outcome EXCEPT ![t] = "none"]
    /\ parsed' = [parsed EXCEPT ![t] = "none"]
    /\ UNCHANGED <<mgr, lock, closed, op, cont, trace, entry, afterClose, gvars, fvars, tvars>>

\* Variant: the method body runs without taking the lock.
CanAcquire_Unlocked(t) == TRUE

\* Variant: close() runs without taking the lock.
CanAcquire_CloseUnlocked(t) == op[t] = "close" \/ lock = NoThread

\* with self._lock: blocks until the lock is free.
CanAcquire(t) == lock = NoThread

\* The first statement of each method takes the lock.
Acquire(t) ==
    /\ pc[t] = "wait"
    /\ CanAcquire(t)
    /\ lock' = t
    /\ afterClose' = [afterClose EXCEPT ![t] = closed]
    /\ entry' = [entry EXCEPT ![t] = EntryState]
    /\ cont' = [cont EXCEPT ![t] = "probe"]
    /\ Goto(t, IF op[t] = "close" THEN "close" ELSE "ensure")
    /\ UNCHANGED <<mgr, closed, op, trace, outcome, parsed, gvars, fvars, tvars>>

\* Variant: a closed manager never spawns again.
NeedsSpawn_Stopped == (engine = None \/ first_run) /\ ~closed

\* Variant: every call spawns a process of its own.
NeedsSpawn_Always == TRUE

\* _ensure_engine's guard.
NeedsSpawn == engine = None \/ first_run

\* Variant: the except clause forgets to clear the reference.
EngineAfterEnsureFailure_Kept == engine

\* _ensure_engine's except clause: self.engine = None.
EngineAfterEnsureFailure == None

\* Variant: the except clause swallows the failure instead of raising.
SpawnFailurePc_Swallowed(t) == cont[t]

\* _ensure_engine's except clause ends in raise: the call is left.
SpawnFailurePc(t) == "exit"

\* _ensure_engine up to the spawn (popen_uci).
EnsureSpawn(t) ==
    /\ pc[t] = "ensure"
    /\ IF NeedsSpawn
       THEN \E r \in SpawnOutcomes :
              IF r = "ok"
              THEN /\ engine' = nextPid
                   /\ alive' = alive \cup {nextPid}
                   /\ nextPid' = nextPid + 1
                   /\ Log(t, "spawn_ok")
                   /\ Goto(t, "ensure_ping")
                   /\ UNCHANGED <<outcome>>
              ELSE /\ engine' = EngineAfterEnsureFailure
                   /\ Log(t, "spawn_fail")
                   /\ outcome' = [outcome EXCEPT ![t] =
                         IF SpawnFailurePc(t) = "exit" THEN "error" ELSE @]
                   /\ Goto(t, SpawnFailurePc(t))
                   /\ UNCHANGED <<alive, nextPid>>
       ELSE /\ Goto(t, cont[t])
            /\ UNCHANGED <<engine, alive, nextPid, trace, outcome>>
    /\ UNCHANGED <<first_run, verified, lock, leaked, closed, op, cont, entry, afterClose, parsed, gvars, fvars, tvars>>

\* Variant: the flag is never cleared.
FirstRunAfterPing_Kept == first_run

\* self.first_run = False, once the spawned process has answered the ping.
FirstRunAfterPing == FALSE

\* _ensure_engine's ping of the process just spawned.
EnsurePing(t) ==
    /\ pc[t] = "ensure_ping"
    /\ \E r \in PingOutcomes(engine) :
         IF r = "ok"
         THEN /\ first_run' = FirstRunAfterPing
              /\ verified' = TRUE
              /\ Log(t, "ping_ok")
              /\ Goto(t, cont[t])
              /\ UNCHANGED <<engine, leaked, outcome>>
         ELSE /\ engine' = EngineAfterEnsureFailure
              /\ leaked' = leaked \cup (({engine} \ {engine'}) \cap alive)
              /\ Log(t, "ping_fail")
              /\ Finish(t, "error")
              /\ UNCHANGED <<first_run, verified>>
    /\ UNCHANGED <<lock, alive, nextPid, closed, op, cont, entry, afterClose, parsed, gvars, fvars, tvars>>

\* Variant: the probe's failure is not caught at all.
CaughtByProbe_Nothing(r) == FALSE

\* _restart_engine_if_needed's except clause: engine errors only.
CaughtByProbe(r) == r = "engine_error"

\* Variant: after the discard the call goes on without a restart.
AfterProbeDiscard_NoRestart == "search"

\* _restart_engine_if_needed's except clause ends in self._ensure_engine().
AfterProbeDiscard == "ensure"

\* _restart_engine_if_needed: the pre-call ping of the referenced process.
Probe(t) ==
    /\ pc[t] = "probe"
    /\ IF engine = None
       THEN /\ Goto(t, "search")
            /\ UNCHANGED <<engine, leaked, cont, trace, outcome>>
       ELSE \E r \in PingOutcomes(engine) :
              IF r = "ok"
              THEN /\ Log(t, "probe_ok")
                   /\ Goto(t, "search")
                   /\ UNCHANGED <<engine, leaked, cont, outcome>>
              ELSE IF CaughtByProbe(r)
              THEN /\ engine' = None
                   /\ leaked' = leaked \cup ({engine} \cap alive)
                   /\ trace' = [trace EXCEPT ![t] = @ \o <<"probe_err", "discard">>]
                   /\ cont' = [cont EXCEPT ![t] = "search"]
                   /\ Goto(t, AfterProbeDiscard)
                   /\ UNCHANGED <<outcome>>
              ELSE /\ Log(t, IF r = "engine_error" THEN "probe_err" ELSE "probe_other")
                   /\ Finish(t, "error")
                   /\ UNCHANGED <<engine, leaked, cont>>
    /\ UNCHANGED <<first_run, verified, lock, alive, nextPid, closed, op, entry, afterClose, parsed, gvars, fvars, tvars>>

\* Variant: the retry goes back into the try block (unbounded retries).
SearchFaultCont_Loop == "search"

\* After the restart that follows a search fault, the search is issued
\* outside any try block.
SearchFaultCont == "retry"

\* What a method makes of the engine's answer: analyze_position returns
\* it as it is and get_best_move returns result.move; get_top_moves reads
\* result["pv"][0] of every line, a KeyError on a board without legal
\* moves, which no except clause of the method catches.
ReturnOutcomes(o) == IF o = "get_top_moves" THEN {"ok", "error"} ELSE {"ok"}

\* The first search of a call (analyse / play inside the try block).
Search(t) ==
    /\ pc[t] = "search"
    /\ \E r \in SearchOutcomes(engine) :
         IF r = "ok"
         THEN /\ Log(t, "search_ok")
              /\ \E x \in ReturnOutcomes(op[t]) : Finish(t, x)
              /\ UNCHANGED <<engine, leaked, cont>>
         ELSE IF r = "engine_error"
         THEN /\ engine' = None
              /\ leaked' = leaked \cup ({engine} \cap alive)
              /\ trace' = [trace EXCEPT ![t] = @ \o <<"search_err", "discard">>]
              /\ cont' = [cont EXCEPT ![t] = SearchFaultCont]
              /\ Goto(t, "ensure")
              /\ UNCHANGED <<outcome>>
         ELSE /\ Log(t, "search_other")
              /\ Finish(t, "error")
              /\ UNCHANGED <<engine, leaked, cont>>
    /\ UNCHANGED <<first_run, verified, lock, alive, nextPid, closed, op, entry, afterClose, parsed, gvars, fvars, tvars>>

\* The retried search, in the except clause: whatever it raises propagates.
Retry(t) ==
    /\ pc[t] = "retry"
    /\ \E r \in SearchOutcomes(engine) :
         /\ Log(t, IF r = "ok" THEN "search_ok"
                   ELSE IF r = "engine_error" THEN "search_err" ELSE "search_other")
         /\ IF r = "ok" THEN \E x \in ReturnOutcomes(op[t]) : Finish(t, x)
            ELSE Finish(t, "error")
    /\ UNCHANGED <<mgr, lock, closed, op, cont, entry, afterClose, parsed, gvars, fvars, tvars>>

\* Variant: the reference is cleared only when quit() succeeded.
EngineAfterQuit_KeptOnFailure(r) == IF r = "ok" THEN None ELSE engine

\* close's finally clause: self.engine = None.
EngineAfterQuit(r) == None

\* Variant: a failure of quit() is re-raised.
QuitOutcome_Raised(r) == IF r = "ok" THEN "ok" ELSE "error"

\* close's except clause swallows whatever quit() raises.
QuitOutcome(r) == "ok"

\* Variant: close() calls quit() whether or not a process is referenced.
QuitNeeded_Always == TRUE

\* close's guard: if self.engine is not None.
QuitNeeded == engine # None

\* close(): quit the referenced process, if any.
CloseQuit(t) ==
    /\ pc[t] = "close"
    /\ IF ~QuitNeeded
       THEN /\ Finish(t, "ok")
            /\ UNCHANGED <<engine, alive, leaked, trace>>
       ELSE \E r \in QuitOutcomes(engine) :
              /\ alive' = IF r = "ok" THEN alive \ {engine} ELSE alive
              /\ engine' = EngineAfterQuit(r)
              /\ Log(t, IF r = "ok" THEN "quit_ok" ELSE "quit_fail")
              /\ Finish(t, QuitOutcome(r))
              /\ UNCHANGED <<leaked>>
    /\ UNCHANGED <<first_run, verified, lock, nextPid, closed, op, cont, entry, afterClose, parsed, gvars, fvars, tvars>>

\* Variant: the lock is released by hand on return and stays taken when
\* an exception leaves the method.
LockOnExit_HeldOnError(t) == IF outcome[t] = "error" THEN t ELSE NoThread

\* with self._lock: the context manager releases on return and on
\* exception alike.
LockOnExit(t) == NoThread

\* Leaving the with block (by return or by exception) releases the lock.
Release(t) ==
    /\ pc[t] = "exit"
    /\ lock' = LockOnExit(t)
    /\ closed' = (closed \/ op[t] = "close")
    /\ pc' = [pc EXCEPT ![t] = "idle"]
    /\ op' = [op EXCEPT ![t] = "none"]
    /\ cont' = [cont EXCEPT ![t] = "none"]
    /\ trace' = [trace EXCEPT ![t] = <<>>]
    /\ outcome' = [outcome EXCEPT ![t] = "none"]
    /\ entry' = [entry EXCEPT ![t] = "none"]
    /\ afterClose' = [afterClose EXCEPT ![t] = FALSE]
    /\ parsed' = [parsed EXCEPT ![t] = "none"]
    /\ UNCHANGED <<mgr, gvars, fvars, tvars>>

\* An engine process dies on its own.
ProcessDies(p) ==
    /\ p \in alive
    /\ alive' = alive \ {p}
    /\ leaked' = leaked \ {p}
    /\ UNCHANGED <<engine, first_run, verified, lock, nextPid, closed,
                   pc, op, cont, trace, outcome, entry, afterClose, parsed, gvars, fvars, tvars>>

Next ==
    \/ \E t \in Threads, o \in Ops : Invoke(t, o)
    \/ \E t \in Threads, o \in AnalysisOps : Reject(t, o)
    \/ \E t \in Threads : ToolRaise(t)
    \/ \E t \in Threads : Acquire(t)
    \/ \E t \in Threads : EnsureSpawn(t)
    \/ \E t \in Threads : EnsurePing(t)
    \/ \E t \in Threads : Probe(t)
    \/ \E t \in Threads : Search(t)
    \/ \E t \in Threads : Retry(t)
    \/ \E t \in Threads : CloseQuit(t)
    \/ \E t \in Threads : Release(t)
    \/ \E p \in Pids : ProcessDies(p)

Spec == Init /\ [][Next]_vars

\* The steps of a call that holds the lock: every engine operation returns
\* or raises, and the method goes on to its next statement.
CallStep(t) ==
    \/ EnsureSpawn(t)
    \/ EnsurePing(t)
    \/ Probe(t)
    \/ Search(t)
    \/ Retry(t)
    \/ CloseQuit(t)
    \/ Release(t)

\* The manager with every call making progress once it holds the lock.
SpecLive == Spec /\ \A t \in Threads : WF_vars(CallStep(t))

\* ---------------------------------------------------------- the game tools
\* Variant: a game tool warms the engine up before it returns.
ManagerUntouched_Warm == first_run' = FALSE /\ UNCHANGED <<engine, verified, lock, alive, nextPid, leaked, closed, pc, op, cont, trace, outcome, entry, afterClose, parsed>>

\* start_game, make_move and record_opponent_move hold no statement that
\* names stockfish_manager.
ManagerUntouched == UNCHANGED mvars

\* len(current_game.move_history), nothing without a game
LogLength(cur) == IF cur = NoGame THEN 0 ELSE Len(heap[cur].move_history)

\* A caller calls one of the three game tools; a move tool as long as the
\* log has room.
GInvoke(t, c) ==
    /\ gpc[t] = "idle"
    /\ pc[t] = "idle"
    /\ LogLength(current_game) < MaxLog \/ c.tool = "start_game"
    /\ gcall' = [gcall EXCEPT ![t] = c]
    /\ gpre' = [gpre EXCEPT ![t] = Snapshot]
    /\ gpc' = [gpc EXCEPT ![t] = IF c.tool = "start_game" THEN "start" ELSE "check"]
    /\ UNCHANGED <<heap, current_game, gref, gout>>
    /\ ManagerUntouched
    /\ UNCHANGED <<fvars, tvars>>

\* The calls come one at a time.
GInvokeAlone(t, c) ==
    /\ \A u \in Threads : gpc[u] = "idle"
    /\ GInvoke(t, c)

\* Variant: a start_game that fails leaves no game behind.
GlobalAfterFailedStart_Cleared == NoGame

\* current_game = GameState(...) assigns only when the constructor returned;
\* the except clause returns the error and assigns nothing.
GlobalAfterFailedStart == current_game

\* start_game: build the GameState and assign it to the global, or catch
\* the constructor's ValueError.  The object is visible to nobody before
\* the assignment.
StartGame(t) ==
    /\ gpc[t] = "start"
    /\ LET c == gcall[t]
           kept == Collect(heap, NoGame, gref)
           id == CHOOSE i \in ObjIds \ DOMAIN kept :
                    \A j \in ObjIds \ DOMAIN kept : i <= j
       IN IF ConstructOk(c.fen)
          THEN /\ heap' = (id :> NewGame(c)) @@ kept
               /\ current_game' = id
               /\ gout' = [gout EXCEPT ![t] = "status"]
          ELSE /\ gout' = [gout EXCEPT ![t] = "invalid_fen"]
               /\ current_game' = GlobalAfterFailedStart
               /\ UNCHANGED heap
    /\ gpc' = [gpc EXCEPT ![t] = "exit"]
    /\ UNCHANGED <<gcall, gref, gpre>>
    /\ ManagerUntouched
    /\ UNCHANGED <<fvars, tvars>>

\* make_move / record_opponent_move: "if current_game is None", then
\* chess.Move.from_uci(move).
MoveCheck(t) ==
    /\ gpc[t] = "check"
    /\ IF current_game = NoGame
       THEN /\ gout' = [gout EXCEPT ![t] = "no_game"]
            /\ gpc' = [gpc EXCEPT ![t] = "exit"]
       ELSE IF ~MoveOk(gcall[t].move)
       THEN /\ gout' = [gout EXCEPT ![t] = "bad_move_text"]
            /\ gpc' = [gpc EXCEPT ![t] = "exit"]
       ELSE /\ gpc' = [gpc EXCEPT ![t] = "legal"]
            /\ UNCHANGED gout
    /\ UNCHANGED <<heap, current_game, gcall, gref, gpre>>
    /\ ManagerUntouched
    /\ UNCHANGED <<fvars, tvars>>

\* current_game.make_move(move_obj): the global is read, and the object's
\* make_move asks is_legal.
MoveLegal(t) ==
    /\ gpc[t] = "legal"
    /\ gref' = [gref EXCEPT ![t] = current_game]
    /\ IF /\ ToolAllowsMove(gcall[t].tool, heap[current_game])
          /\ MoveAccepted(heap[current_game].board, ParseMove(gcall[t].move))
       THEN /\ gpc' = [gpc EXCEPT ![t] = "push"]
            /\ UNCHANGED gout
       ELSE /\ gout' = [gout EXCEPT ![t] = "illegal_move"]
            /\ gpc' = [gpc EXCEPT ![t] = "exit"]
    /\ UNCHANGED <<heap, current_game, gcall, gpre>>
    /\ ManagerUntouched
    /\ UNCHANGED <<fvars, tvars>>

\* self.board.push(move).  push does not ask for legality; on an empty
\* from-square the library either fails an assertion, having cleared the
\* en-passant square, or moves nothing onto the target, by its version.
MovePush(t) ==
    /\ gpc[t] = "push"
    /\ LET g == heap[gref[t]]
           m == ParseMove(gcall[t].move)
       IN \/ /\ heap' = [heap EXCEPT ![gref[t]].board = Push(g.board, m)]
             /\ gpc' = [gpc EXCEPT ![t] = "append"]
             /\ UNCHANGED gout
          \/ /\ g.board.at[m.from] = "."
             /\ heap' = [heap EXCEPT ![gref[t]].board.ep = "-"]
             /\ gout' = [gout EXCEPT ![t] = "exception"]
             /\ gpc' = [gpc EXCEPT ![t] = "exit"]
    /\ UNCHANGED <<current_game, gcall, gref, gpre>>
    /\ ManagerUntouched
    /\ UNCHANGED <<fvars, tvars>>

\* self.move_history.append(move), and the tool returns its status.
MoveAppend(t) ==
    /\ gpc[t] = "append"
    /\ heap' = [heap EXCEPT ![gref[t]].move_history =
                   LogAfterMove(@, ParseMove(gcall[t].move))]
    /\ gout' = [gout EXCEPT ![t] = "status"]
    /\ gpc' = [gpc EXCEPT ![t] = "exit"]
    /\ UNCHANGED <<current_game, gcall, gref, gpre>>
    /\ ManagerUntouched
    /\ UNCHANGED <<fvars, tvars>>

\* The tool's answer has left; its locals are gone.
GReturn(t) ==
    /\ gpc[t] = "exit"
    /\ gpc' = [gpc EXCEPT ![t] = "idle"]
    /\ gcall' = [gcall EXCEPT ![t] = NoCall]
    /\ gout' = [gout EXCEPT ![t] = "none"]
    /\ gpre' = [gpre EXCEPT ![t] = NoSnapshot]
    /\ gref' = [gref EXCEPT ![t] = NoGame]
    /\ heap' = Collect(heap, current_game, gref')
    /\ UNCHANGED current_game
    /\ ManagerUntouched
    /\ UNCHANGED <<fvars, tvars>>

\* The manager as the game tools can find it: never started, running,
\* running with its process dead, and closed.
ManagerStates ==
    { [engine |-> None, first_run |-> TRUE, alive |-> {}, nextPid |-> 1, closed |-> FALSE],
      [engine |-> 1, first_run |-> FALSE, alive |-> {1}, nextPid |-> 2, closed |-> FALSE],
      [engine |-> 1, first_run |-> FALSE, alive |-> {}, nextPid |-> 2, closed |-> FALSE],
      [engine |-> None, first_run |-> FALSE, alive |-> {}, nextPid |-> 2, closed |-> TRUE] }

InitGame ==
    /\ \E ms \in ManagerStates :
         /\ engine = ms.engine
         /\ first_run = ms.first_run
         /\ verified = ~ms.first_run
         /\ alive = ms.alive
         /\ nextPid = ms.nextPid
         /\ closed = ms.closed
    /\ lock = NoThread
    /\ leaked = {}
    /\ pc = [t \in Threads |-> "idle"]
    /\ op = [t \in Threads |-> "none"]
    /\ cont = [t \in Threads |-> "none"]
    /\ trace = [t \in Threads |-> <<>>]
    /\ outcome = [t \in Threads |-> "none"]
    /\ entry = [t \in Threads |-> "none"]
    /\ afterClose = [t \in Threads |-> FALSE]
    /\ parsed = [t \in Threads |-> "none"]
    /\ GameInit
    /\ FenInit
    /\ TopInit

NextGame ==
    \/ \E t \in Threads, c \in GameCalls : GInvokeAlone(t, c)
    \/ \E t \in Threads : StartGame(t)
    \/ \E t \in Threads : MoveCheck(t)
    \/ \E t \in Threads : MoveLegal(t)
    \/ \E t \in Threads : MovePush(t)
    \/ \E t \in Threads : MoveAppend(t)
    \/ \E t \in Threads : GReturn(t)

SpecGame == InitGame /\ [][NextGame]_vars

\* The calls that race: games started with default side and difficulty from
\* the standard position or from two pieces of one side, and two of the
\* moves.
RacingCalls ==
    { c \in GameCalls :
        /\ c.ai_color = <<>>
        /\ c.difficulty = <<>>
        /\ c.fen \in {<<>>, <<<<<<"W", "1", "W", "1">>, <<"w">>, <<"-">>>>>>}
        /\ c.move \in {<<>>, <<"a", "b">>, <<"c", "d">>} }

NextGameConc ==
    \/ \E t \in Threads, c \in RacingCalls : GInvoke(t, c)
    \/ \E t \in Threads : StartGame(t)
    \/ \E t \in Threads : MoveCheck(t)
    \/ \E t \in Threads : MoveLegal(t)
    \/ \E t \in Threads : MovePush(t)
    \/ \E t \in Threads : MoveAppend(t)
    \/ \E t \in Threads : GReturn(t)

SpecGameConc == Init /\ [][NextGameConc]_vars

\* ------------------------------------------------- reading a call's trace
SpawnEvents == {"spawn_ok", "spawn_fail"}
SearchEvents == {"search_ok", "search_err", "search_other"}
SearchFaults == {"search_err", "search_other"}
ProbeFailures == {"probe_err", "probe_other"}

Count(tr, S) == Cardinality({i \in 1..Len(tr) : tr[i] \in S})

Has(tr, e) == \E i \in 1..Len(tr) : tr[i] = e

Last(tr) == IF tr = <<>> THEN "none" ELSE tr[Len(tr)]

\* What a call did after its first search raised an engine error.
AfterFirstFault(tr) ==
    LET i == CHOOSE k \in 1..Len(tr) :
                 tr[k] = "search_err" /\ \A j \in 1..(k - 1) : tr[j] # "search_err"
    IN SubSeq(tr, i + 1, Len(tr))

\* The call's first search raised an engine error.
FirstSearchFaulted(tr) ==
    \E k \in 1..Len(tr) :
        tr[k] = "search_err" /\ \A j \in 1..(k - 1) : tr[j] \notin SearchEvents

RestartSucceeded(tr) == Has(tr, "spawn_ok") /\ Has(tr, "ping_ok")

Returned(t) == pc[t] = "exit"

\* Between the first and the last engine step of an analysis call.
InEngineIO(t) ==
    /\ op[t] \in AnalysisOps
    /\ pc[t] \in {"ensure", "ensure_ping", "probe", "search", "retry"}

\* ---------------------------------------------------------------- claims

\* C1: at most one engine process spawned by the manager is alive, in every
\* reachable state.  The code drops references to processes it never quits
\* and then spawns another, so TLC finds this violated.
C1_AtMostOneLiveProcess == Cardinality(alive) <= 1

\* C2: engine I/O of concurrent analysis calls never overlaps: a thread
\* between its first and last engine step holds the lock, so no two threads
\* are there at once and every other caller waits.
C2_NoOverlappingEngineIO ==
    \A t1 \in Threads :
        InEngineIO(t1) =>
            /\ lock = t1
            /\ \A t2 \in Threads \ {t1} : ~InEngineIO(t2) /\ pc[t2] # "exit"

\* One thread is inside engine I/O while another has called and waits.
C2_Witness ==
    \E t1, t2 \in Threads :
        /\ t1 # t2
        /\ InEngineIO(t1) /\ pc[t1] = "retry"
        /\ pc[t2] = "wait" /\ op[t2] \in AnalysisOps

\* C3 as stated: whenever the first search of analyze_position raised an
\* engine error, the finished call shows exactly one restart and exactly one
\* more search, and a fault of that second search ends the call in error.
C3_AlwaysOneMoreSearch ==
    \A t \in Threads :
        (op[t] = "analyze_position" /\ Returned(t) /\ FirstSearchFaulted(trace[t])) =>
            LET rest == AfterFirstFault(trace[t]) IN
            /\ Count(rest, SpawnEvents) = 1
            /\ Count(rest, SearchEvents) = 1
            /\ (Last(rest) \in SearchFaults => outcome[t] = "error")

\* C3 amended: after an engine error of the first search the reference is
\* dropped and one restart is attempted; the search is issued once more
\* exactly when that restart succeeded (spawn and ping), never a third time,
\* and a fault of the second search ends the call in error with no further
\* restart.
C3_RetryOnceAfterRestart ==
    \A t \in Threads :
        op[t] = "analyze_position" =>
            /\ Count(trace[t], SearchEvents) <= 2
            /\ (Returned(t) /\ FirstSearchFaulted(trace[t])) =>
                 LET rest == AfterFirstFault(trace[t]) IN
                 /\ rest[1] = "discard"
                 /\ Count(rest, SpawnEvents) = 1
                 /\ Count(rest, SearchEvents) = IF RestartSucceeded(rest) THEN 1 ELSE 0
                 /\ (Has(rest, "search_err") \/ Has(rest, "search_other")) =>
                      /\ Last(rest) \in SearchFaults
                      /\ outcome[t] = "error"

\* A finished analyze_position whose two searches both faulted.
C3_Witness ==
    \E t \in Threads :
        /\ op[t] = "analyze_position" /\ Returned(t)
        /\ FirstSearchFaulted(trace[t])
        /\ Last(trace[t]) = "search_err"
        /\ Count(trace[t], SearchEvents) = 2

\* C4: no live process exists whose reference the manager dropped without
\* an explicit shutdown (failed pre-call ping, search error, failed ping
\* after a spawn).  The code only clears the field, so TLC finds this
\* violated.
C4_NoLiveProcessDiscarded == leaked = {}

\* C5 as stated: a call that starts after close() has returned spawns no
\* process and returns no result.
C5_StoppedIsTerminal ==
    \A t \in Threads :
        (afterClose[t] /\ op[t] \in AnalysisOps) =>
            /\ ~Has(trace[t], "spawn_ok")
            /\ outcome[t] # "ok"

\* C5 amended: close() is not terminal, it leaves the manager as if
\* unstarted: an analysis call that starts after close() has returned and
\* finds no referenced process attempts a spawn as its first engine step.
C5_CallAfterCloseSpawns ==
    \A t \in Threads :
        (afterClose[t] /\ op[t] \in AnalysisOps /\ entry[t] = "unstarted"
            /\ pc[t] # "ensure") =>
                /\ trace[t] # <<>>
                /\ trace[t][1] \in SpawnEvents

\* A call after close() that spawned a fresh process and returned a result.
C5_Witness ==
    \E t \in Threads :
        /\ afterClose[t] /\ op[t] \in AnalysisOps /\ entry[t] = "unstarted"
        /\ Returned(t) /\ outcome[t] = "ok"
        /\ trace[t][1] = "spawn_ok"

\* The call ended on a spawn failure, a failed ping after a spawn, or a
\* fault of its second search.
EndedOnSecondSearchFault(t) ==
    Last(trace[t]) \in SearchFaults /\ Count(trace[t], SearchEvents) = 2

EndedOnFailedStart(t) == Last(trace[t]) \in {"spawn_fail", "ping_fail"}

DeadOnEntryHealthyReplacement(t) ==
    /\ op[t] \in AnalysisOps /\ Returned(t)
    /\ entry[t] = "running_dead"
    /\ \A i \in 2..Len(trace[t]) :
         trace[t][i] \notin {"spawn_fail", "ping_fail", "probe_err", "probe_other",
                             "search_err", "search_other"}

\* Searches issued after a search of the same call had faulted.
RetriedSearches(tr) ==
    Cardinality({i \in 1..Len(tr) :
        tr[i] \in SearchEvents /\ \E j \in 1..(i - 1) : tr[j] \in SearchFaults})

\* C7 as stated: after a death while idle and with a healthy replacement
\* the next call shows one restart, one retried search and one success.
C7_OneRestartOneRetry ==
    \A t \in Threads :
        DeadOnEntryHealthyReplacement(t) =>
            /\ Count(trace[t], SpawnEvents) = 1
            /\ RetriedSearches(trace[t]) = 1
            /\ outcome[t] = "ok"

\* C7 amended: after a death while idle and with a healthy replacement the
\* next call gets its answer by one restart triggered by the pre-call probe:
\* the probe fails, the reference is dropped, one process is spawned and
\* pinged, and the only search of the call, its first attempt, succeeds (no
\* retried search); analyze_position and get_best_move return that answer.
C7_OneRestartNoRetry ==
    \A t \in Threads :
        DeadOnEntryHealthyReplacement(t) =>
            /\ trace[t] = <<"probe_err", "discard", "spawn_ok", "ping_ok", "search_ok">>
            /\ Count(trace[t], SpawnEvents) = 1
            /\ Count(trace[t], SearchEvents) = 1
            /\ RetriedSearches(trace[t]) = 0
            /\ op[t] # "get_top_moves" => outcome[t] = "ok"

\* A finished call that found a dead process and a healthy replacement.
C7_Witness ==
    \E t \in Threads :
        DeadOnEntryHealthyReplacement(t) /\ Has(trace[t], "search_ok")

\* C8: a failed pre-call probe never ends the call in error while a
\* replacement process can still be started.  The code lets every probe
\* failure that is not an engine error propagate, so TLC finds this
\* violated.
C8_ProbeFailureNeverSurfaces ==
    \A t \in Threads :
        (op[t] \in AnalysisOps /\ Returned(t)
            /\ Last(trace[t]) \in ProbeFailures /\ "ok" \in SpawnOutcomes) =>
                outcome[t] # "error"

\* C9: a failed spawn is the last engine operation of its call (no further
\* spawn attempt, no search) and the call ends in error.
C9_SpawnFailureEndsCall ==
    \A t \in Threads :
        op[t] \in AnalysisOps =>
            \A i \in 1..Len(trace[t]) :
                trace[t][i] = "spawn_fail" =>
                    /\ i = Len(trace[t])
                    /\ Returned(t)
                    /\ outcome[t] = "error"

\* A call whose restart after a search fault failed to spawn.
C9_Witness ==
    \E t \in Threads :
        /\ op[t] \in AnalysisOps /\ Returned(t)
        /\ Last(trace[t]) = "spawn_fail"
        /\ Has(trace[t], "search_err")

\* C10: close() never raises and leaves no process reference, whether the
\* termination succeeded, failed, or there was no process.
C10_CloseNeverRaises ==
    \A t \in Threads :
        (op[t] = "close" /\ Returned(t)) =>
            /\ outcome[t] = "ok"
            /\ engine = None

\* A close() whose quit() failed on a live process.
C10_Witness ==
    \E t \in Threads :
        /\ op[t] = "close" /\ Returned(t)
        /\ Last(trace[t]) = "quit_fail"
        /\ alive # {}

\* ------------------------------------------------------ calling validate
\* An argument is chosen, then one method of FenValidator() runs on it.
InitFen ==
    /\ ManagerInit
    /\ GameInit
    /\ fen_in \in FenInputs
    /\ fen_out = NoResult
    /\ fen_call = "none"
    /\ TopInit

Validate ==
    /\ fen_out = NoResult
    /\ fen_out' = validate(fen_in)
    /\ fen_call' = "validate"
    /\ UNCHANGED <<fen_in, mvars, gvars, tvars>>

IsValid ==
    /\ fen_out = NoResult
    /\ fen_out' = is_valid(fen_in)
    /\ fen_call' = "is_valid"
    /\ UNCHANGED <<fen_in, mvars, gvars, tvars>>

GetValidationErrors ==
    /\ fen_out = NoResult
    /\ fen_out' = get_validation_errors(fen_in)
    /\ fen_call' = "get_validation_errors"
    /\ UNCHANGED <<fen_in, mvars, gvars, tvars>>

NextFen ==
    \/ Validate
    \/ IsValid
    \/ GetValidationErrors

SpecFen == InitFen /\ [][NextFen]_vars

\* ------------------------------------------- the list of get_top_moves
\* A board and a count are chosen; the engine answers the search; the
\* method builds its list from the answer.
InitTop ==
    /\ ManagerInit
    /\ GameInit
    /\ FenInit
    /\ top_legal \in 0..MaxLegal
    /\ top_count \in 1..MaxCount
    /\ top_results = NoAnswer
    /\ top_out = NoList

Analyse ==
    /\ top_results = NoAnswer
    /\ top_results' \in EngineInfos(top_legal, top_count)
    /\ UNCHANGED <<top_legal, top_count, top_out, mvars, gvars, fvars>>

TopMoves ==
    /\ top_results # NoAnswer
    /\ top_out = NoList
    /\ top_out' = top_moves(top_results)
    /\ UNCHANGED <<top_legal, top_count, top_results, mvars, gvars, fvars>>

NextTop ==
    \/ Analyse
    \/ TopMoves

SpecTop == InitTop /\ [][NextTop]_vars

\* ------------------------------------------------------------------ C11
\* C11: every tool call ends by returning a payload; no validation error
\* and no engine error leaves a tool as an exception.  Here: no analysis
\* tool is left by the ValueError of chess.Board(fen), and none is left by
\* an exception of the manager call.
C11_ToolsNeverRaise ==
    \A t \in Threads :
        /\ pc[t] # "rejected"
        /\ ~(pc[t] = "exit" /\ op[t] \in AnalysisOps /\ outcome[t] = "error")

\* ------------------------------------------------------------------ C12
FailedCallIdle(t) ==
    /\ pc[t] = "rejected"
    /\ lock # t
    /\ trace[t] = <<>>
    /\ entry[t] = "none"

\* C12: an analysis tool call performs engine operations only after its
\* position text has parsed; a call whose text fails to parse performs no
\* engine operation, does not take the lock, and none of its steps changes
\* the manager.
C12_ParseGatesEngine ==
    /\ [](\A t \in Threads :
            /\ (op[t] \in AnalysisOps /\ (trace[t] # <<>> \/ lock = t)) => parsed[t] = "ok"
            /\ parsed[t] = "failed" => FailedCallIdle(t))
    /\ [][\A t \in Threads :
            ((parsed[t] = "failed" \/ parsed'[t] = "failed") /\ pc'[t] # pc[t])
                => UNCHANGED <<mgr, lock>>]_vars

\* A call is rejected while the manager runs an engine for another caller.
C12_Witness ==
    \E t, u \in Threads :
        /\ pc[t] = "rejected" /\ parsed[t] = "failed"
        /\ engine # None /\ lock = u /\ trace[u] # <<>>

\* ------------------------------------------------------- reading a game
\* The position reached from pos by pushing the moves of log in order.
RECURSIVE ApplyAll(_, _)
ApplyAll(pos, log) ==
    IF log = <<>> THEN pos ELSE ApplyAll(Push(pos, Head(log)), Tail(log))

\* Every move of log was legal in the position it was pushed on.
RECURSIVE LegalFrom(_, _)
LegalFrom(pos, log) ==
    log = <<>> \/ (IsLegal(pos, Head(log)) /\ LegalFrom(Push(pos, Head(log)), Tail(log)))

\* No make_move stands between its legality check and its append on object id.
Settled(id) == \A t \in Threads : gref[t] = id => gpc[t] \notin {"push", "append"}

\* ------------------------------------------------------------------ C13
\* C13: under concurrent tool calls the steps of the game tools are atomic
\* with respect to each other, so that whenever no move call is half way
\* through a game, every move in its log was legal in the position it was
\* applied to and the position is the one the logged moves lead to.
C13_LoggedMovesWereLegal ==
    \A id \in DOMAIN heap :
        Settled(id) =>
            /\ LegalFrom(heap[id].start, heap[id].move_history)
            /\ heap[id].board = ApplyAll(heap[id].start, heap[id].move_history)

\* ------------------------------------------------------------------ C14
\* The call of thread t has run to its end.
AtExit(t) == gpc[t] = "exit"

MoveDone(t) == AtExit(t) /\ gcall[t].tool \in MoveTools /\ gout[t] = "status"

IsPrefix(a, b) == Len(a) <= Len(b) /\ \A i \in 1..Len(a) : a[i] = b[i]

\* C14: with calls made one at a time, the current position is the start
\* position with the logged moves applied in order; a successful move call
\* appended exactly its move at the end of the log, advanced the position
\* by it and flipped the side to move; no move call removed or reordered
\* earlier log entries.
C14_PositionIsLogReplayed ==
    /\ current_game # NoGame =>
         (Settled(current_game) =>
            heap[current_game].board =
                ApplyAll(heap[current_game].start, heap[current_game].move_history))
    /\ \A t \in Threads :
         (AtExit(t) /\ gcall[t].tool \in MoveTools /\ gpre[t].cur # NoGame) =>
            /\ current_game = gpre[t].cur
            /\ IsPrefix(gpre[t].game[1].move_history, heap[current_game].move_history)
            /\ gout[t] = "status" =>
                 /\ heap[current_game].move_history =
                        Append(gpre[t].game[1].move_history, ParseMove(gcall[t].move))
                 /\ heap[current_game].board =
                        Push(gpre[t].game[1].board, ParseMove(gcall[t].move))
                 /\ current_player(heap[current_game]) # current_player(gpre[t].game[1])
            /\ gout[t] # "status" =>
                 heap[current_game].move_history = gpre[t].game[1].move_history

\* A successful move call on a game whose log already held a move.
C14_Witness ==
    \E t \in Threads : MoveDone(t) /\ Len(heap[current_game].move_history) >= 2

\* ------------------------------------------------------------------ C15
\* The move call of thread t asked for a move that is well written but not
\* legal in the position the call found.
IllegalMoveCall(t) ==
    /\ AtExit(t)
    /\ gcall[t].tool \in MoveTools
    /\ gpre[t].cur # NoGame
    /\ MoveOk(gcall[t].move)
    /\ ~IsLegal(gpre[t].game[1].board, ParseMove(gcall[t].move))

\* C15: a move call whose move is not legal in the current position fails
\* with the illegal-move error and leaves position, side to move and log
\* as they were.
C15_IllegalMoveLeavesGame ==
    \A t \in Threads :
        IllegalMoveCall(t) =>
            /\ gout[t] = "illegal_move"
            /\ current_game = gpre[t].cur
            /\ heap[current_game].board = gpre[t].game[1].board
            /\ current_player(heap[current_game]) = current_player(gpre[t].game[1])
            /\ heap[current_game].move_history = gpre[t].game[1].move_history

\* An illegal move was refused on a game that had moves in its log.
C15_Witness ==
    \E t \in Threads :
        /\ IllegalMoveCall(t)
        /\ gout[t] = "illegal_move"
        /\ heap[current_game].move_history # <<>>

\* ------------------------------------------------------------------ C16
StartDone(t) == AtExit(t) /\ gcall[t].tool = "start_game" /\ gout[t] = "status"

\* The text given to the call of thread t is one the rules library parses.
GivenParsedText(t) == gcall[t].fen # <<>> /\ ParseOk(gcall[t].fen[1])

\* C16: after a successful start_game the current game has an empty log,
\* the given position (the standard initial position when none is given),
\* the given side (black by default) and the given difficulty (10 by
\* default), whatever game there was before.
C16_StartReplacesGame ==
    \A t \in Threads :
        StartDone(t) =>
            /\ current_game # NoGame
            /\ heap[current_game].move_history = <<>>
            /\ GivenParsedText(t) => heap[current_game].board = Parse(gcall[t].fen[1])
            /\ gcall[t].fen = <<>> => heap[current_game].board = StartPos
            /\ heap[current_game].ai_color =
                 IF gcall[t].ai_color = <<"white">> THEN "white" ELSE "black"
            /\ heap[current_game].difficulty =
                 IF gcall[t].difficulty = <<>> THEN 10 ELSE gcall[t].difficulty[1]

\* A game with moves in its log was replaced by one started from a given
\* position with a given side and difficulty.
C16_Witness ==
    \E t \in Threads :
        /\ StartDone(t)
        /\ GivenParsedText(t)
        /\ Parse(gcall[t].fen[1]) # StartPos
        /\ gcall[t].ai_color = <<"white">>
        /\ gcall[t].difficulty # <<>>
        /\ gpre[t].cur # NoGame
        /\ gpre[t].game[1].move_history # <<>>

\* ------------------------------------------------------------------ C17
\* C17: start_game with a position text the rules library rejects returns
\* the invalid-position error and leaves the current game, or the absence
\* of one, exactly as it was.
C17_RejectedTextLeavesGame ==
    \A t \in Threads :
        (AtExit(t) /\ gcall[t].tool = "start_game"
           /\ gcall[t].fen # <<>> /\ ~ParseOk(gcall[t].fen[1])) =>
            /\ gout[t] = "invalid_fen"
            /\ current_game = gpre[t].cur
            /\ current_game # NoGame => heap[current_game] = gpre[t].game[1]

\* ------------------------------------------------------------------ C18
\* C18: no step of start_game, make_move or record_opponent_move performs
\* an engine operation or changes the manager: its process reference, its
\* started flag, its lock, its processes and its calls stay as they are.
C18_GameToolsLeaveManager ==
    [][UNCHANGED <<engine, first_run, lock, alive, nextPid, leaked, closed, trace>>]_vars

\* Game tools have succeeded and failed beside a running engine.
C18_Witness ==
    /\ engine # None /\ engine \in alive
    /\ \E t \in Threads : AtExit(t) /\ gout[t] = "illegal_move"
    /\ current_game # NoGame /\ heap[current_game].move_history # <<>>

\* ------------------------------------------------------------------ C19
\* The canonical form of a parsed position text: the board field, the side
\* to move (white when left out), and no en-passant square where no
\* capture is possible.
CanonText(p) == <<p[1], IF Len(p) >= 2 THEN p[2] ELSE <<"w">>, <<"-">>>>

\* C19: for every valid position text p, start_game with p followed by a
\* status query gives the canonical form of p and an empty move log.
C19_StartThenStatus ==
    \A t \in Threads :
        (StartDone(t) /\ GivenParsedText(t)) =>
            /\ game_status(heap[current_game]).fen = CanonText(gcall[t].fen[1])
            /\ game_status(heap[current_game]).move_history = <<>>

\* A game was started from a text that is not in canonical form.
C19_Witness ==
    \E t \in Threads :
        /\ StartDone(t) /\ GivenParsedText(t)
        /\ gcall[t].fen[1] # CanonText(gcall[t].fen[1])
        /\ heap[current_game].board.ep # "-"

\* ------------------------------------------------------------------ C20
PieceLetters == {"p", "n", "b", "r", "q", "k", "P", "N", "B", "R", "Q", "K"}

EmptyRuns == {"1", "2", "3", "4", "5", "6", "7", "8"}

Files == {"a", "b", "c", "d", "e", "f", "g", "h"}

RECURSIVE Occurrences(_, _)
Occurrences(cs, c) ==
    IF cs = <<>> THEN 0
    ELSE (IF Head(cs) = c THEN 1 ELSE 0) + Occurrences(Tail(cs), c)

\* The squares a rank of letters and empty runs covers.
RECURSIVE Width(_)
Width(rank) ==
    IF rank = <<>> THEN 0
    ELSE (IF Head(rank) \in EmptyRuns THEN int(Head(rank)) ELSE 1) + Width(Tail(rank))

AllDigits(cs) == cs # <<>> /\ \A i \in 1..Len(cs) : isdigit(cs[i])

\* A board of 8 ranks of exactly 8 squares, recognised piece letters only,
\* one king of each colour.
WellFormedBoard(b) ==
    LET ranks == Split(b, "/")
    IN /\ Len(ranks) = 8
       /\ \A i \in 1..Len(ranks) :
            /\ \A j \in 1..Len(ranks[i]) : ranks[i][j] \in PieceLetters \cup EmptyRuns
            /\ Width(ranks[i]) = 8
       /\ Occurrences(b, "K") = 1
       /\ Occurrences(b, "k") = 1

WellFormedCastling(c) ==
    \/ c = <<"-">>
    \/ /\ c # <<>>
       /\ \A i \in 1..Len(c) : c[i] \in {"K", "Q", "k", "q"}
       /\ \A i, j \in 1..Len(c) : i # j => c[i] # c[j]

WellFormedEnPassant(e) ==
    \/ e = <<"-">>
    \/ Len(e) = 2 /\ e[1] \in Files /\ e[2] \in {"3", "6"}

\* A text of six fields, each of them legal.
WellFormed(fen) ==
    /\ fen.kind = "str"
    /\ LET fields == Split(fen.chars, " ")
       IN /\ Len(fields) = 6
          /\ WellFormedBoard(fields[1])
          /\ fields[2] \in {<<"w">>, <<"b">>}
          /\ WellFormedCastling(fields[3])
          /\ WellFormedEnPassant(fields[4])
          /\ AllDigits(fields[5])
          /\ AllDigits(fields[6]) /\ fields[6] # <<"0">>

\* C20: validate returns True for every text of six fields whose board has
\* 8 ranks of exactly 8 squares, recognised piece letters and one king per
\* colour, and whose side, castling, en-passant and counter fields are legal.
C20_WellFormedTextsPass ==
    (fen_call = "validate" /\ WellFormed(fen_in)) => fen_out = ReturnedTrue

\* validate has passed a well-formed middle-game text with an en-passant
\* square and castling rights.
C20_Witness ==
    /\ fen_call = "validate"
    /\ fen_out = ReturnedTrue
    /\ WellFormed(fen_in)
    /\ Split(fen_in.chars, " ")[4] # <<"-">>
    /\ Split(fen_in.chars, " ")[3] # <<"-">>
    /\ Occurrences(fen_in.chars, "n") = 2

\* ------------------------------------------------------------------ C21
\* The ten checks of the validator's contract, in their order.
CheckOrder ==
    <<"text", "field_count", "rank_count", "rank_squares", "piece_letter",
      "side", "castling", "en_passant", "counters", "kings">>

\* The check a reported rule belongs to.
Category(rule) == IF rule \in {"empty", "not_string"} THEN "text" ELSE rule

\* The checks a text violates, each judged on its own; a check whose field
\* does not exist is not counted.
ViolatedChecks(fen) ==
    IF fen.kind # "str" \/ fen.chars = <<>> THEN {"text"}
    ELSE LET fields == Split(fen.chars, " ")
             board == fields[1]
             ranks == Split(board, "/")
         IN  {c \in {"field_count"} : Len(fields) # 6}
             \cup {c \in {"rank_count"} : Len(ranks) # 8}
             \cup {c \in {"rank_squares"} :
                     \E i \in 1..Len(ranks) : square_count(ranks[i]) # 8}
             \cup {c \in {"piece_letter"} :
                     \E i \in 1..Len(board) :
                         board[i] \notin PieceLetters \cup {"/"} /\ ~isdigit(board[i])}
             \cup {c \in {"kings"} :
                     Occurrences(board, "K") # 1 \/ Occurrences(board, "k") # 1}
             \cup (IF Len(fields) # 6 THEN {}
                   ELSE {c \in {"side"} : fields[2] \notin {<<"w">>, <<"b">>}}
                        \cup {c \in {"castling"} : ~WellFormedCastling(fields[3])}
                        \cup {c \in {"en_passant"} : ~WellFormedEnPassant(fields[4])}
                        \cup {c \in {"counters"} :
                                \/ ~AllDigits(fields[5])
                                \/ ~AllDigits(fields[6])
                                \/ \A i \in 1..Len(fields[6]) : fields[6][i] = "0"})

\* C21: for every text that violates exactly one of the ten checks, validate
\* fails with a validation error that names the violated rule category.
C21_SingleViolationNamed ==
    (fen_call = "validate" /\ Cardinality(ViolatedChecks(fen_in)) = 1)
        => /\ fen_out.raised = "FenValidationError"
           /\ Category(fen_out.rule) \in ViolatedChecks(fen_in)

\* ------------------------------------------------------------------ C22
\* C22: is_valid never raises, for any argument; it returns True exactly
\* when validate succeeds and False exactly when validate fails.
C22_IsValidMirrorsValidate ==
    fen_call = "is_valid"
        => fen_out = (IF validate(fen_in) = ReturnedTrue THEN ReturnedTrue
                      ELSE ReturnedFalse)

\* ------------------------------------------------------------------ C23
\* A returned list of rule descriptions.
ListOf(rules) == [raised |-> "none", rule |-> "none", value |-> "list", items |-> rules]

\* C23: get_validation_errors returns an empty list for every valid text
\* and, for every invalid text, a list holding every violated rule.
C23_EveryViolationListed ==
    fen_call = "get_validation_errors"
        => /\ fen_out.value = "list"
           /\ fen_out = ListOf(ViolatedChecks(fen_in))

\* ------------------------------------------------------------------ C24
\* C24: for every position and every count, get_top_moves returns at most
\* count entries and at least min(count, legal moves) entries, in the
\* order the engine returned them.
C24_TopMovesLength ==
    top_out # NoList
        => /\ top_out.raised = "none"
           /\ Len(top_out.value) <= top_count
           /\ Len(top_out.value) >= Min(top_count, top_legal)
           /\ \A i \in 1..Len(top_out.value) :
                top_out.value[i] = <<top_results[i].pv[1], top_results[i].score>>

\* ------------------------------------------------------------------ C25
\* C25: no search is issued while the manager holds no process reference:
\* every search of an analysis call, first attempt and retry, goes to the
\* process the manager references, and that process answered a liveness
\* ping (the one after its spawn or the pre-call one) as the last engine
\* step before the search, within the same critical section.
C25_SearchOnPingedProcess ==
    \A t \in Threads :
        pc[t] \in {"search", "retry"} =>
            /\ op[t] \in AnalysisOps
            /\ lock = t
            /\ engine # None
            /\ Last(trace[t]) \in {"ping_ok", "probe_ok"}

\* get_top_moves is about to retry its search on a process spawned and
\* pinged after the first search faulted.
C25_Witness ==
    \E t \in Threads :
        /\ op[t] = "get_top_moves" /\ pc[t] = "retry"
        /\ engine # None
        /\ FirstSearchFaulted(trace[t])
        /\ Last(trace[t]) = "ping_ok"

\* ------------------------------------------------------------------ C26
\* The outcome analyze_position has after a sequence of engine events: the
\* result is returned exactly when the last event is a successful search.
AnalyzeOutcome(tr) == IF Last(tr) = "search_ok" THEN "ok" ELSE "error"

\* C26: get_best_move and get_top_moves follow the lifecycle contract of
\* analyze_position: after the same sequence of spawn, ping, discard,
\* restart and search events a call of any of the three ends with the
\* kind of outcome analyze_position ends with.
C26_SameOutcomeAsAnalyze ==
    \A t \in Threads :
        (op[t] \in AnalysisOps /\ Returned(t)) =>
            outcome[t] = AnalyzeOutcome(trace[t])

\* ------------------------------------------------------------------ C27
\* The call met a referenced process that answered the pre-call ping, and
\* no search of it faulted.
FaultFreeOnLiveProcess(t) ==
    /\ op[t] \in AnalysisOps
    /\ entry[t] = "running_live"
    /\ Has(trace[t], "probe_ok")
    /\ Count(trace[t], SearchFaults) = 0

\* C27: constructing a manager spawns no process; spawns happen inside
\* analysis calls only, the first one as the first engine step of the first
\* call; a call that finds a referenced process answering the liveness ping
\* and meets no fault performs no spawn and leaves that process referenced.
C27_LazySpawnOnly ==
    /\ nextPid = 1 => (engine = None /\ alive = {})
    /\ \A t \in Threads :
         /\ Count(trace[t], SpawnEvents) > 0 => (op[t] \in AnalysisOps /\ lock = t)
         /\ (op[t] \in AnalysisOps /\ entry[t] = "unstarted" /\ trace[t] # <<>>)
               => trace[t][1] \in SpawnEvents
         /\ FaultFreeOnLiveProcess(t) =>
               /\ Count(trace[t], SpawnEvents) = 0
               /\ ~Has(trace[t], "discard")
               /\ engine # None

\* A second call has returned its result from the process the first call
\* spawned: one process was ever spawned.
C27_Witness ==
    \E t \in Threads :
        /\ FaultFreeOnLiveProcess(t) /\ Returned(t)
        /\ trace[t] = <<"probe_ok", "search_ok">>
        /\ outcome[t] = "ok"
        /\ nextPid = 2 /\ engine = 1

\* ------------------------------------------------------------------ C28
\* Some thread is inside close(), before or after its quit().
InClose(t) == op[t] = "close" /\ pc[t] \in {"close", "exit"}

\* C28: close() runs inside the same mutual-exclusion section as the
\* analysis calls: while a thread is inside close() it holds the lock, no
\* other thread is between its first and last engine step or about to
\* leave its call, and no other thread is inside close().
C28_CloseInsideLock ==
    \A t \in Threads :
        InClose(t) =>
            /\ lock = t
            /\ \A u \in Threads \ {t} :
                 ~InEngineIO(u) /\ pc[u] \notin {"close", "exit"}

\* close() is about to quit a live process while an analysis call waits
\* for the lock.
C28_Witness ==
    \E t, u \in Threads :
        /\ t # u
        /\ op[t] = "close" /\ pc[t] = "close"
        /\ engine # None /\ engine \in alive
        /\ pc[u] = "wait" /\ op[u] \in AnalysisOps

\* ------------------------------------------------------------------ C29
\* The earliest check of the order a text violates.
FirstViolated(fen) ==
    CheckOrder[CHOOSE i \in 1..Len(CheckOrder) :
                  /\ CheckOrder[i] \in ViolatedChecks(fen)
                  /\ \A j \in 1..(i - 1) : CheckOrder[j] \notin ViolatedChecks(fen)]

\* C29: validate is fail-fast in the fixed check order: for a text violating
\* several checks, the error reported is that of the earliest violated one.
C29_EarliestViolationReported ==
    (fen_call = "validate" /\ Cardinality(ViolatedChecks(fen_in)) >= 2)
        => /\ fen_out.raised = "FenValidationError"
           /\ Category(fen_out.rule) = FirstViolated(fen_in)

\* ------------------------------------------------------------------ C30
\* The en-passant check is the earliest one the text violates, if it
\* violates any.
EnPassantDecides(fen) ==
    /\ fen.kind = "str"
    /\ Len(Split(fen.chars, " ")) = 6
    /\ ViolatedChecks(fen) \cap
          {"text", "field_count", "rank_count", "rank_squares", "piece_letter",
           "side", "castling"} = {}

\* C30: validate accepts an en-passant field only if it is '-' or two
\* characters with file a-h and rank digit 3 or 6; every other en-passant
\* field fails with the validation error about the en-passant square.
C30_EnPassantFieldChecked ==
    (fen_call = "validate" /\ EnPassantDecides(fen_in))
        => /\ fen_out = ReturnedTrue => WellFormedEnPassant(Split(fen_in.chars, " ")[4])
           /\ ~WellFormedEnPassant(Split(fen_in.chars, " ")[4])
                 => fen_out = Fails("en_passant")

\* ------------------------------------------------------------------ C31
\* Some rank of the board holds the digit 0 or the digit 9.
HasInvalidDigit(fen) ==
    /\ fen.kind = "str"
    /\ fen.chars # <<>>
    /\ \E i \in 1..Len(Split(fen.chars, " ")[1]) :
         Split(fen.chars, " ")[1][i] \in {"0", "9"}

\* C31: validate rejects every board in which some rank contains the digit
\* 0 or 9, wherever the digit stands in the rank and whatever the other
\* characters of the rank are.
C31_InvalidDigitRejected ==
    (fen_call = "validate" /\ HasInvalidDigit(fen_in))
        => fen_out.raised = "FenValidationError"

\* ------------------------------------------------------------------ C32
\* What a move call makes of the game it found and its move text, whichever
\* of the two tools it is: the answer and the game afterwards.
MoveEffect(pre, move) ==
    IF pre.cur = NoGame THEN [answer |-> "no_game", game |-> <<>>]
    ELSE IF ~MoveOk(move) THEN [answer |-> "bad_move_text", game |-> pre.game]
    ELSE IF ~IsLegal(pre.game[1].board, ParseMove(move))
    THEN [answer |-> "illegal_move", game |-> pre.game]
    ELSE [answer |-> "status",
          game |-> <<[pre.game[1] EXCEPT
                        !.board = Push(@, ParseMove(move)),
                        !.move_history = Append(@, ParseMove(move))]>>]

\* The engine's side is to move in the game.
EngineToMove(g) == g.ai_color = (IF g.board.turn = "w" THEN "white" ELSE "black")

\* C32: make_move and record_opponent_move are functionally identical on
\* the game: the answer of a call and the game it leaves are a function of
\* the game it found and the move text alone, the same for both tools,
\* whatever the engine's side is and whoever is to move.
C32_MoveToolsAlike ==
    \A t \in Threads :
        (AtExit(t) /\ gcall[t].tool \in MoveTools) =>
            /\ gout[t] = MoveEffect(gpre[t], gcall[t].move).answer
            /\ current_game = gpre[t].cur
            /\ Snapshot.game = MoveEffect(gpre[t], gcall[t].move).game

\* make_move has succeeded while the engine's side was not to move, on a
\* game that had a move in its log.
C32_Witness ==
    \E t \in Threads :
        /\ MoveDone(t) /\ gcall[t].tool = "make_move"
        /\ ~EngineToMove(gpre[t].game[1])
        /\ gpre[t].game[1].move_history # <<>>

\* ------------------------------------------------------------------ C33
\* The places of a call between taking the lock and leaving the method.
InCall(t) == pc[t] \in {"ensure", "ensure_ping", "probe", "search", "retry", "close", "exit"}

\* C33: provided every engine operation returns or raises, every manager
\* call ends after a bounded number of engine operations (at most three
\* spawn attempts and two searches) and releases the lock on every exit
\* path, an exception included; the lock is held by running calls only,
\* and never requested by the thread that holds it.
C33_CallsEndAndRelease ==
    /\ [](\A t \in Threads :
            /\ Count(trace[t], SpawnEvents) <= 3
            /\ Count(trace[t], SearchEvents) <= 2
            /\ lock = t <=> InCall(t)
            /\ pc[t] = "wait" => lock # t)
    /\ \A t \in Threads : (lock = t) ~> (lock = NoThread)

\* A call is about to leave by an exception after three spawns and two
\* searches, while another caller waits for the lock.
C33_Witness ==
    \E t, u \in Threads :
        /\ t # u
        /\ Returned(t) /\ outcome[t] = "error"
        /\ Count(trace[t], SpawnEvents) = 3
        /\ Count(trace[t], SearchEvents) = 2
        /\ lock = t
        /\ pc[u] = "wait"

\* ------------------------------------------------------------------ C34
\* A move call that found no game answers with the no-game error and
\* leaves no game.
NoGameMoveRefused ==
    \A t \in Threads :
        (AtExit(t) /\ gcall[t].tool \in MoveTools /\ gpre[t].cur = NoGame) =>
            /\ gout[t] = "no_game"
            /\ current_game = NoGame
            /\ DOMAIN heap = {}

\* C34: while no game has been started, make_move and record_opponent_move
\* return an error and create no game; once a start_game has succeeded a
\* game exists in every later state: the current game changes only by a
\* start_game that succeeds, and never to none.
C34_GameOnlyReplaced ==
    /\ []NoGameMoveRefused
    /\ [][/\ current_game # NoGame => current_game' # NoGame
          /\ current_game' # current_game =>
               \E t \in Threads :
                   /\ gpc[t] = "start" /\ gcall[t].tool = "start_game"
                   /\ gout'[t] = "status"]_vars

\* A well-written move was refused because no game had been started.
C34_Witness ==
    \E t \in Threads :
        /\ AtExit(t) /\ gcall[t].tool \in MoveTools
        /\ gpre[t].cur = NoGame
        /\ MoveOk(gcall[t].move)
        /\ gout[t] = "no_game"

\* ------------------------------------------------------------------ C35
\* Thread t is inside a close() that found no process referenced: the
\* manager never started, was closed before, or lost its process to a
\* failed start.
IdleClose(t) == op[t] = "close" /\ entry[t] = "unstarted"

\* C35: close() on a manager that references no process (never started,
\* or closed before) performs no engine operation, does not raise and
\* leaves the manager state unchanged.
C35_CloseOnNothing ==
    /\ [](\A t \in Threads :
            IdleClose(t) =>
                /\ trace[t] = <<>>
                /\ engine = None
                /\ Returned(t) => outcome[t] = "ok")
    /\ [][\A t \in Threads :
            (IdleClose(t) /\ pc'[t] # pc[t]) =>
                UNCHANGED <<engine, first_run, alive, nextPid, leaked>>]_vars

\* A second close() has returned on a manager that had been started and
\* closed before.
C35_Witness ==
    \E t \in Threads :
        /\ IdleClose(t) /\ Returned(t)
        /\ afterClose[t]
        /\ ~first_run
        /\ outcome[t] = "ok"

\* ------------------------------------------------------------------ C36
\* No manager call is in flight.
NoCallInFlight == lock = NoThread

\* C36: whenever no call is in flight, first_run is false exactly if some
\* spawn followed by an answered ping has completed on this instance, and
\* a set process reference implies first_run is false; so the flag never
\* makes _ensure_engine spawn while a process is referenced.
C36_FlagMatchesReference ==
    /\ NoCallInFlight =>
         /\ ~first_run <=> verified
         /\ engine # None => ~first_run
    /\ \A t \in Threads : pc[t] = "ensure" => ~(engine # None /\ first_run)

\* No call is in flight, the manager has started once, and the restart of
\* a later call failed: the flag is false while no process is referenced.
C36_Witness ==
    /\ NoCallInFlight
    /\ ~first_run /\ verified
    /\ engine = None
    /\ ~closed
    /\ nextPid >= 2

====
